---- MODULE Spec2Model ----
(***************************************************************************)
(* A model of the native core of lsyncd (branches/lsyncd2/lsyncd.c):       *)
(* the inotify event normaliser handle_event, the master loop that drives  *)
(* it, the child reaper l_wait_pids and the child starter l_exec.          *)
(*                                                                         *)
(* Spec      runs masterloop against every stream of kernel records, every *)
(*           select()/read() outcome and a reset signal at any moment.     *)
(* SpecWait  runs l_wait_pids against every pid table, reap order and      *)
(*           collector answer.                                             *)
(* SpecExec  runs l_exec against every outcome of fork() and execv().      *)
(***************************************************************************)
EXTENDS Integers, Sequences, FiniteSets, TLC

(* ------------------------------ bounds -------------------------------- *)

\* records the kernel delivers during one run of the master loop
MaxRecords == 3
\* records one read() of the inotify descriptor returns at most
MaxBatch == 2
\* slots of the pid table handed to wait_pids
MaxPids == 2
\* returns of waitpid() during one call of wait_pids
MaxReaps == 3
\* calls of exec the runner makes
MaxExecs == 4

(* ------------------------- program constants -------------------------- *)

\* enum event_type
NONE   == 0
ATTRIB == 1
MODIFY == 2
CREATE == 3
DELETE == 4
MOVE   == 5

\* lua_pushnil: the absent second name of a unary event
NIL == "nil"

(* --------------------------- kernel records --------------------------- *)

Watches == {1, 2}
Cookies == {1, 2}
Names   == {"a", "b"}

\* the (struct inotify_event *) NULL; id is the position of a record in the
\* kernel's stream, 0 for no record
NULL == [id |-> 0, wd |-> 0, cookie |-> 0, mask |-> {}, name |-> ""]

\* rename halves: the kernel links them by a non-zero cookie
MoveRecords(id) ==
    [id : {id}, wd : Watches, cookie : Cookies,
     mask : {{"IN_MOVED_FROM"}, {"IN_MOVED_TO"}},
     name : Names]

\* events on an entry of a watched directory: cookie 0
EntryRecords(id) ==
    [id : {id}, wd : Watches, cookie : {0},
     mask : {{"IN_ATTRIB"}, {"IN_CLOSE_WRITE"}, {"IN_CREATE", "IN_ISDIR"}, {"IN_DELETE"}},
     name : {"a"}]

\* events on the watched directory itself (no name), and the queue overflow,
\* which the kernel reports on watch descriptor -1
SelfRecords(id) ==
    [id : {id}, wd : Watches, cookie : {0},
     mask : {{"IN_DELETE_SELF"}, {"IN_IGNORED"}}, name : {""}]
    \cup
    {[id |-> id, wd |-> -1, cookie |-> 0, mask |-> {"IN_Q_OVERFLOW"}, name |-> ""]}

\* everything read() can put at position id of the stream
Records(id) == MoveRecords(id) \cup EntryRecords(id) \cup SelfRecords(id)

(* ------------------------------- state -------------------------------- *)

VARIABLES
    reset,           \* static volatile sig_atomic_t reset
    move_event,      \* bool move_event: the move buffer is in use
    move_event_buf,  \* struct inotify_event *move_event_buf (its content)
    pc,              \* where masterloop stands
    do_read,         \* bool do_read: true when not 0 (kept as the int select() returned)
    left,            \* records of readbuf not yet handled: (len - i)
    nread,           \* history: how many records the loop has taken from the kernel
    lastSrc,         \* history: per watch, the stream position of its latest event
    last,            \* history: the latest call of handle_event (raced: reset
                     \* was set between its test of reset and its call)
    since,           \* history: what passed since move_event_buf was filled
    drainEnd,        \* history: the move buffer when the last drain ended
    alarm,           \* history: what lsyncd_get_alarm answered in this iteration,
                     \* until the loop has acted on it
    pids,            \* l_wait_pids: int *pids
    remaining,       \* l_wait_pids: int remaining
    collector,       \* l_wait_pids: const char *collector (set or NULL)
    wpc,             \* l_wait_pids: where it stands
    reaps,           \* l_wait_pids history: number of waitpid() returns
    wlog,            \* l_wait_pids history: the table it was given, the pids
                     \* held and reaped, the collector calls, the latest reap
                     \* the loop took up
    execs            \* l_exec history: the calls of exec and how they ended

loopvars == <<reset, move_event, move_event_buf, pc, do_read, left,
              nread, lastSrc, last, since, drainEnd, alarm>>
waitvars == <<pids, remaining, collector, wpc, reaps, wlog>>
vars == <<reset, move_event, move_event_buf, pc, do_read, left,
          nread, lastSrc, last, since, drainEnd, alarm, pids, remaining, collector, wpc,
          reaps, wlog, execs>>

(* ---------------------------- handle_event ---------------------------- *)

\* what handle_event works on: the globals it reads and writes, the calls it
\* has made into the runner so far, and sig: whether the reset signal
\* arrives after the test of reset, before or while the runner executes a call
HState(sig) ==
    [reset |-> reset, move_event |-> move_event, move_event_buf |-> move_event_buf,
     calls |-> <<>>, sig |-> sig]

\* lua_getglobal(L, "overflow"); lua_call(L, 0, 0)
OverflowCall(event) ==
    [fn |-> "overflow", args |-> <<>>, src |-> event.id, src2 |-> 0]

\* EventCall with the two names of a MOVE pushed in the wrong order
EventCall_swapped(event_type, event, buf) ==
    [fn   |-> "lsyncd_event",
     args |-> <<event_type,
                event.wd,
                "IN_ISDIR" \in event.mask,
                event.name,
                IF event_type = MOVE THEN buf.name ELSE NIL>>,
     src  |-> event.id,
     src2 |-> IF event_type = MOVE THEN buf.id ELSE 0]

\* EventCall that never tells the runner the entry is a directory
EventCall_noDir(event_type, event, buf) ==
    [fn   |-> "lsyncd_event",
     args |-> <<event_type,
                event.wd,
                FALSE,
                IF event_type = MOVE THEN buf.name ELSE event.name,
                IF event_type = MOVE THEN event.name ELSE NIL>>,
     src  |-> event.id,
     src2 |-> IF event_type = MOVE THEN buf.id ELSE 0]

\* the five values pushed for lsyncd_event; src and src2 are history: the
\* stream positions of the record(s) the values were taken from
EventCall(event_type, event, buf) ==
    [fn   |-> "lsyncd_event",
     args |-> <<event_type,
                event.wd,
                "IN_ISDIR" \in event.mask,
                IF event_type = MOVE THEN buf.name ELSE event.name,
                IF event_type = MOVE THEN event.name ELSE NIL>>,
     src  |-> event.id,
     src2 |-> IF event_type = MOVE THEN buf.id ELSE 0]

\* BufferUnary without "move_event = false"
BufferUnary_keep(st) ==
    [ret |-> FALSE, event |-> st.move_event_buf, event_type |-> DELETE,
     after_buf |-> NULL, move_event |-> TRUE, move_event_buf |-> st.move_event_buf]

\* BufferUnary that empties the buffer and returns without a DELETE
BufferUnary_silent(st) ==
    [ret |-> TRUE, event |-> st.move_event_buf, event_type |-> NONE,
     after_buf |-> NULL, move_event |-> FALSE, move_event_buf |-> st.move_event_buf]

\* event == NULL: the buffered MOVE_FROM is followed by nothing
BufferUnary(st) ==
    [ret |-> FALSE, event |-> st.move_event_buf, event_type |-> DELETE,
     after_buf |-> NULL, move_event |-> FALSE, move_event_buf |-> st.move_event_buf]

\* Unmatched that lets every event but a MOVED_TO pass by the buffer
Unmatched_onlyMovedTo(event, st) ==
    st.move_event /\ "IN_MOVED_TO" \in event.mask
                  /\ event.cookie # st.move_event_buf.cookie

\* a MOVE_FROM is buffered and this event is not its match
Unmatched(event, st) ==
    st.move_event /\ ( ~("IN_MOVED_TO" \in event.mask)
                       \/ event.cookie # st.move_event_buf.cookie )

\* BufferThenEvent without "after_buf = event"
BufferThenEvent_noAfter(event, st) ==
    [ret |-> FALSE, event |-> st.move_event_buf, event_type |-> DELETE,
     after_buf |-> NULL, move_event |-> FALSE, move_event_buf |-> st.move_event_buf]

\* BufferThenEvent without "event = move_event_buf"
BufferThenEvent_sameEvent(event, st) ==
    [ret |-> FALSE, event |-> event, event_type |-> DELETE,
     after_buf |-> event, move_event |-> FALSE, move_event_buf |-> st.move_event_buf]

\* BufferThenEvent that overwrites the buffer with the event and returns
BufferThenEvent_overwrite(event, st) ==
    [ret |-> TRUE, event |-> event, event_type |-> NONE,
     after_buf |-> NULL, move_event |-> TRUE, move_event_buf |-> event]

\* the buffer is handled now, the event right after it
BufferThenEvent(event, st) ==
    [ret |-> FALSE, event |-> st.move_event_buf, event_type |-> DELETE,
     after_buf |-> event, move_event |-> FALSE, move_event_buf |-> st.move_event_buf]

\* a MOVE_FROM is buffered and this event is its MOVED_TO
Matched(event, st) ==
    st.move_event /\ "IN_MOVED_TO" \in event.mask
                  /\ event.cookie = st.move_event_buf.cookie

MatchedMove(event, st) ==
    [ret |-> FALSE, event |-> event, event_type |-> MOVE,
     after_buf |-> NULL, move_event |-> FALSE, move_event_buf |-> st.move_event_buf]

\* memcpy(move_event_buf, event, el); move_event = true; return
StoreMoveFrom(event, st) ==
    [ret |-> TRUE, event |-> event, event_type |-> NONE,
     after_buf |-> NULL, move_event |-> TRUE, move_event_buf |-> event]

\* a unary event of the given type
Unary(event_type, event, st) ==
    [ret |-> FALSE, event |-> event, event_type |-> event_type,
     after_buf |-> NULL, move_event |-> st.move_event, move_event_buf |-> st.move_event_buf]

\* logstring(DEBUG, "skipped some inotify event."); return
Skipped(event, st) ==
    [ret |-> TRUE, event |-> event, event_type |-> NONE,
     after_buf |-> NULL, move_event |-> st.move_event, move_event_buf |-> st.move_event_buf]

\* the if/else-if chain that picks event, event_type and after_buf
Classify(event, st) ==
    IF event = NULL THEN BufferUnary(st)
    ELSE IF Unmatched(event, st) THEN BufferThenEvent(event, st)
    ELSE IF Matched(event, st) THEN MatchedMove(event, st)
    ELSE IF "IN_MOVED_FROM" \in event.mask THEN StoreMoveFrom(event, st)
    ELSE IF "IN_MOVED_TO" \in event.mask THEN Unary(CREATE, event, st)
    ELSE IF "IN_MOVED_FROM" \in event.mask THEN Unary(DELETE, event, st)
    ELSE IF "IN_ATTRIB" \in event.mask THEN Unary(ATTRIB, event, st)
    ELSE IF "IN_CLOSE_WRITE" \in event.mask THEN Unary(MODIFY, event, st)
    ELSE IF "IN_CREATE" \in event.mask THEN Unary(CREATE, event, st)
    ELSE IF "IN_DELETE" \in event.mask THEN Unary(DELETE, event, st)
    ELSE Skipped(event, st)

\* lua_call into the runner: the call is made, and a reset signal that
\* arrives just before or while the runner executes it leaves reset set on
\* return
RunnerCall(call, st) ==
    [st EXCEPT !.calls = Append(@, call), !.reset = @ \/ st.sig]

\* the globals after classification
Classified(c, st) ==
    [st EXCEPT !.move_event = c.move_event, !.move_event_buf = c.move_event_buf]

\* "and hands over to runner"
HandOver(c, st) ==
    RunnerCall(EventCall(c.event_type, c.event, c.move_event_buf), Classified(c, st))

\* OnOverflow that first flushes a buffered MOVE_FROM as a DELETE
OnOverflow_flushFirst(event, st) ==
    IF st.move_event
    THEN RunnerCall(OverflowCall(event), HandOver(BufferUnary(st), st))
    ELSE RunnerCall(OverflowCall(event), st)

\* event != NULL with IN_Q_OVERFLOW: the runner decides; nothing else is done
OnOverflow(event, st) == RunnerCall(OverflowCall(event), st)

\* handle_event without its test of reset
RECURSIVE handle_event_noTest(_, _)
handle_event_noTest(event, st) ==
    IF event # NULL /\ "IN_Q_OVERFLOW" \in event.mask THEN OnOverflow(event, st)
    ELSE IF event # NULL /\ "IN_IGNORED" \in event.mask THEN st
    ELSE LET c == Classify(event, st) IN
         IF c.ret THEN Classified(c, st)
         ELSE IF c.after_buf # NULL
              THEN handle_event_noTest(c.after_buf, HandOver(c, st))
              ELSE HandOver(c, st)

RECURSIVE handle_event(_, _)
handle_event(event, st) ==
    IF st.reset THEN st
    ELSE IF event # NULL /\ "IN_Q_OVERFLOW" \in event.mask THEN OnOverflow(event, st)
    ELSE IF event # NULL /\ "IN_IGNORED" \in event.mask THEN st
    ELSE LET c == Classify(event, st) IN
         IF c.ret THEN Classified(c, st)
         ELSE IF c.after_buf # NULL
              THEN handle_event(c.after_buf, HandOver(c, st))
              ELSE HandOver(c, st)

(* ----------------------------- masterloop ----------------------------- *)

\* clock ticks the runner may name
Ticks == 0 .. 2

\* time_after that is also true of equal times
time_after_orEqual(a, b) == b - a <= 0

\* #define time_after(a,b) ((long)(b) - (long)(a) < 0)
time_after(a, b) == b - a < 0

\* what select() returns: -1 when a signal interrupts it, 0 on timeout,
\* 1 when the inotify descriptor is readable
SelectResults == {-1, 0, 1}

\* when the reset signal arrives relative to one call of handle_event:
\* not at all, between the caller's test and the call, while the runner
\* executes a call made by it, or after handle_event has tested reset and
\* before it makes that call
SignalTimes == {"none", "before", "during", "tested"}

\* the watch descriptors a record can carry
Wds == Watches \cup {-1, 0}

NoSrc == [w \in Wds |-> 0]

NoCall ==
    [made |-> FALSE, arg |-> NULL, reset |-> FALSE, move_event |-> FALSE,
     buf |-> NULL, since |-> {}, lastSrc |-> NoSrc, calls |-> <<>>, raced |-> FALSE]

NoDrain == [ended |-> FALSE, move_event |-> FALSE, buf |-> NULL]

\* no answer of lsyncd_get_alarm is being acted on
NoAlarm == [asked |-> FALSE, state |-> 0, ahead |-> 0]

\* the answer the loop acts on; ahead is alarm_time - now, the ticks from
\* now to the alarm, kept for the branch that reads the two times,
\* alarm_state > 0
Answered(alarm_state, now, alarm_time) ==
    [asked |-> TRUE, state |-> alarm_state,
     ahead |-> IF alarm_state > 0 THEN alarm_time - now ELSE 0]

\* the event bits of a record, for the history
Kind(event) == event.mask \ {"IN_ISDIR"}

\* lastSrc after the calls cs: every lsyncd_event moves its watch forward
RECURSIVE Delivered(_, _)
Delivered(ls, cs) ==
    IF cs = <<>> THEN ls
    ELSE Delivered(IF Head(cs).fn = "lsyncd_event"
                   THEN [ls EXCEPT ![Head(cs).args[2]] = Head(cs).src]
                   ELSE ls,
                   Tail(cs))

\* one call handle_event(L, event) and what it leaves behind
CallHandleEvent(event, when) ==
    LET st0 == [HState(when \in {"during", "tested"})
                    EXCEPT !.reset = @ \/ when = "before"]
        st1 == handle_event(event, st0)
    IN  /\ reset' = st1.reset
        /\ move_event' = st1.move_event
        /\ move_event_buf' = st1.move_event_buf
        /\ lastSrc' = Delivered(lastSrc, st1.calls)
        /\ last' = [made |-> TRUE, arg |-> event, reset |-> st0.reset,
                    move_event |-> move_event,
                    buf |-> IF move_event THEN move_event_buf ELSE NULL,
                    since |-> since, lastSrc |-> lastSrc, calls |-> st1.calls,
                    raced |-> when = "tested" /\ st1.calls # <<>>]
        /\ since' = IF move_event /\ st1.move_event
                       /\ st1.move_event_buf = move_event_buf
                    THEN since \cup Kind(event)
                    ELSE {}

\* the loop written as do { ... } while(do_read): it also ends when there
\* is nothing more to read
LoopTest_whileData ==
    /\ pc = "loop"
    /\ pc' = IF reset \/ do_read = 0 THEN "done" ELSE "alarm"
    /\ since' = IF move_event THEN since \cup {"iteration"} ELSE since
    /\ alarm' = NoAlarm
    /\ UNCHANGED <<reset, move_event, move_event_buf, do_read, left, nread, lastSrc,
                   last, drainEnd>>

\* while(!reset)
LoopTest ==
    /\ pc = "loop"
    /\ pc' = IF reset THEN "done" ELSE "alarm"
    /\ since' = IF move_event THEN since \cup {"iteration"} ELSE since
    /\ alarm' = NoAlarm
    /\ UNCHANGED <<reset, move_event, move_event_buf, do_read, left, nread, lastSrc,
                   last, drainEnd>>

\* l_terminate: exit(exitcode), the process is gone
l_terminate == "terminated"

\* bool do_read = false; now = times(NULL); (alarm_state, alarm_time) =
\* lsyncd_get_alarm(now) and the branch on alarm_state up to the select().
\* The runner may call terminate() instead of answering (l_terminate: the
\* process exits); the model lets it do so from this callback.
GetAlarm ==
    /\ pc = "alarm"
    /\ \/ do_read' = 0 /\ pc' = l_terminate /\ alarm' = NoAlarm
       \/ \E alarm_state \in {-1, 0, 1}, now \in Ticks, alarm_time \in Ticks :
            /\ alarm' = Answered(alarm_state, now, alarm_time)
            /\ IF alarm_state < 0
               THEN do_read' = 0 /\ pc' = "flush"
               ELSE IF alarm_state > 0
               THEN IF time_after(now, alarm_time)
                    THEN do_read' = 0 /\ pc' = "exit"
                    ELSE do_read' = 0 /\ pc' = "select"
               ELSE do_read' = 1 /\ pc' = "read"
    /\ drainEnd' = NoDrain
    /\ UNCHANGED <<reset, move_event, move_event_buf, left, nread, lastSrc, last, since>>

\* do_read = select(inotify_fd + 1, &readfds, NULL, NULL, &tv)
Select ==
    /\ pc = "select"
    /\ \E r \in SelectResults :
         /\ do_read' = r
         /\ pc' = IF r # 0 THEN "read" ELSE "flush"
    /\ alarm' = NoAlarm
    /\ UNCHANGED <<reset, move_event, move_event_buf, left, nread, lastSrc, last,
                   since, drainEnd>>

\* len = read(inotify_fd, readbuf, readbuf_size): n records, none when the
\* read fails. The content of a record is drawn when the loop reaches it.
Read ==
    /\ pc = "read"
    /\ \E n \in 0 .. MaxBatch :
         /\ nread + n <= MaxRecords
         /\ left' = n
    /\ pc' = "events"
    /\ since' = IF move_event THEN since \cup {"read"} ELSE since
    /\ alarm' = NoAlarm
    /\ UNCHANGED <<reset, move_event, move_event_buf, do_read, nread, lastSrc, last,
                   drainEnd>>

\* while (i < len && !reset) { handle_event(L, event); i += ... }
HandleNext ==
    /\ pc = "events"
    /\ left > 0 /\ ~reset
    /\ \E event \in Records(nread + 1), when \in SignalTimes :
         /\ CallHandleEvent(event, when)
         /\ nread' = nread + 1
    /\ left' = left - 1
    /\ UNCHANGED <<pc, do_read, drainEnd, alarm>>

\* the drain written as if (do_read): one read per iteration, whatever the
\* peek reports
Peek_readOnce ==
    /\ pc = "events"
    /\ ~(left > 0 /\ ~reset)
    /\ \E r \in SelectResults :
         /\ do_read' = r
         /\ pc' = "flush"
         /\ drainEnd' = IF r = 0
                        THEN [ended |-> TRUE, move_event |-> move_event,
                              buf |-> move_event_buf]
                        ELSE drainEnd
    /\ UNCHANGED <<reset, move_event, move_event_buf, left, nread, lastSrc, last, since,
                   alarm>>

\* the inner while ends and select() with a zero timeout checks for more data
Peek ==
    /\ pc = "events"
    /\ ~(left > 0 /\ ~reset)
    /\ \E r \in SelectResults :
         /\ do_read' = r
         /\ pc' = IF r # 0 THEN "read" ELSE "flush"
         /\ drainEnd' = IF r = 0
                        THEN [ended |-> TRUE, move_event |-> move_event,
                              buf |-> move_event_buf]
                        ELSE drainEnd
    /\ UNCHANGED <<reset, move_event, move_event_buf, left, nread, lastSrc, last, since,
                   alarm>>

\* the master loop without its check for a MOVE_FROM left in the buffer
NeedsFlush_never == FALSE

\* the master loop calling handle_event(L, NULL) at the end of every iteration
NeedsFlush_always == TRUE

\* if (move_event)
NeedsFlush == move_event

\* checks if there is an unary MOVE_FROM left in the buffer
Flush ==
    /\ pc = "flush"
    /\ IF NeedsFlush
       THEN \E when \in SignalTimes : CallHandleEvent(NULL, when)
       ELSE UNCHANGED <<reset, move_event, move_event_buf, lastSrc, last, since>>
    /\ pc' = "loop"
    /\ UNCHANGED <<do_read, left, nread, drainEnd, alarm>>

\* the signal handler: TERM or HUP sets reset; nothing ever clears it
SetReset ==
    /\ pc \notin {"done", "exit", l_terminate}
    /\ ~reset
    /\ reset' = TRUE
    /\ UNCHANGED <<move_event, move_event_buf, pc, do_read, left, nread, lastSrc,
                   last, since, drainEnd, alarm>>

\* wait_pids has not been called
NoReap == [wp |-> 0, called |-> FALSE, newp |-> 0, before |-> <<>>]
NoWait == [table |-> <<>>, held |-> {}, gone |-> {}, collected |-> 0, last |-> NoReap]

Init ==
    /\ reset = FALSE
    /\ move_event = FALSE
    /\ move_event_buf = NULL
    /\ pc = "loop"
    /\ do_read = 0
    /\ left = 0
    /\ nread = 0
    /\ lastSrc = NoSrc
    /\ last = NoCall
    /\ since = {}
    /\ drainEnd = NoDrain
    /\ alarm = NoAlarm
    /\ pids = <<>>
    /\ remaining = 0
    /\ collector = FALSE
    /\ wpc = "idle"
    /\ reaps = 0
    /\ wlog = NoWait
    /\ execs = <<>>

Next ==
    \/ LoopTest /\ UNCHANGED <<waitvars, execs>>
    \/ GetAlarm /\ UNCHANGED <<waitvars, execs>>
    \/ Select /\ UNCHANGED <<waitvars, execs>>
    \/ Read /\ UNCHANGED <<waitvars, execs>>
    \/ HandleNext /\ UNCHANGED <<waitvars, execs>>
    \/ Peek /\ UNCHANGED <<waitvars, execs>>
    \/ Flush /\ UNCHANGED <<waitvars, execs>>
    \/ SetReset /\ UNCHANGED <<waitvars, execs>>

Spec == Init /\ [][Next]_vars

(* ----------------------------- l_wait_pids ---------------------------- *)

\* what a slot of the pid table can hold: a pid, 0, or the -1 that exec
\* hands to the runner when fork() fails
SlotValues == {-1, 0, 1, 2, 3}

\* what waitpid(0, &status, 0) can return: the pid of a child, or -1
WaitResults == {-1, 0, 1, 2, 3}

\* what the collector can answer: 0 or the pid of a follow-up process
CollectorAnswers == {0, 1, 2, 3}

PidTables == UNION {[1 .. n -> SlotValues] : n \in 0 .. MaxPids}

\* the first loop counting every slot, zero pids included
RECURSIVE CountAll(_)
CountAll(table) ==
    IF table = <<>> THEN 0 ELSE 1 + CountAll(Tail(table))

\* the first loop: reads the table and counts the pids that are not zero
RECURSIVE CountWaited(_)
CountWaited(table) ==
    IF table = <<>> THEN 0
    ELSE (IF Head(table) # 0 THEN 1 ELSE 0) + CountWaited(Tail(table))

\* the second loop: is wp one of the pids waited for
Waited(table, wp) == \E i \in 1 .. Len(table) : table[i] = wp

\* the third loop taking one off remaining per reap, not per slot
Replace_countOnce(table, rem, wp, newp) ==
    [pids |-> [i \in 1 .. Len(table) |-> IF table[i] = wp THEN newp ELSE table[i]],
     remaining |-> IF newp = 0 /\ Waited(table, wp) THEN rem - 1 ELSE rem]

\* the third loop leaving at the first slot that holds wp
RECURSIVE Replace_first(_, _, _, _)
Replace_first(table, rem, wp, newp) ==
    IF table = <<>> THEN [pids |-> <<>>, remaining |-> rem]
    ELSE IF Head(table) = wp
         THEN [pids |-> <<newp>> \o Tail(table),
               remaining |-> IF newp = 0 THEN rem - 1 ELSE rem]
         ELSE LET rest == Replace_first(Tail(table), rem, wp, newp)
              IN  [pids |-> <<Head(table)>> \o rest.pids,
                   remaining |-> rest.remaining]

\* the third loop: newp replaces wp in every slot that holds it, and each
\* slot that becomes zero takes one off remaining
RECURSIVE Replace(_, _, _, _)
Replace(table, rem, wp, newp) ==
    IF table = <<>> THEN [pids |-> <<>>, remaining |-> rem]
    ELSE LET hit  == Head(table) = wp
             rest == Replace(Tail(table),
                             IF hit /\ newp = 0 THEN rem - 1 ELSE rem,
                             wp, newp)
         IN  [pids |-> <<IF hit THEN newp ELSE Head(table)>> \o rest.pids,
              remaining |-> rest.remaining]

\* entry: a table without slots returns at once, else the pids are counted
WaitEnter ==
    /\ wpc = "call"
    /\ IF Len(pids) = 0
       THEN wpc' = "returned" /\ remaining' = remaining
       ELSE wpc' = "loop" /\ remaining' = CountWaited(pids)
    /\ UNCHANGED <<pids, collector, reaps, wlog>>

\* while(remaining)
WaitTest ==
    /\ wpc = "loop"
    /\ wpc' = IF remaining # 0 THEN "waitpid" ELSE "returned"
    /\ UNCHANGED <<pids, remaining, collector, reaps, wlog>>

\* the child processes whose pids a table holds
Children(table) == {table[i] : i \in 1 .. Len(table)} \cap {p \in SlotValues : p > 0}

\* the history after waitpid() returned wp: a child that waitpid() returned
\* is gone, whatever its status
Reaped(log, wp) == [log EXCEPT !.gone = @ \cup (IF wp > 0 THEN {wp} ELSE {})]

\* the history after a reap the loop took up: the collector was called or
\* not, and a pid it puts into the table is a new child, held and not yet
\* reaped
TakenUp(log, table, wp, called, newp) ==
    LET put == IF called /\ newp > 0 THEN {newp} ELSE {}
    IN  [log EXCEPT !.held = @ \cup put,
                    !.gone = @ \ put,
                    !.collected = IF called THEN @ + 1 ELSE @,
                    !.last = [wp |-> wp, called |-> called, newp |-> newp,
                              before |-> table]]

\* one pass of the loop body: waitpid() returns wp; exited is
\* WIFEXITED(status); answer is what the collector returns if it is called
WaitReap ==
    /\ wpc = "waitpid"
    /\ reaps < MaxReaps
    /\ \E wp \in WaitResults, exited \in BOOLEAN, answer \in CollectorAnswers :
         IF wp = 0 \/ ~exited \/ ~Waited(pids, wp)
         THEN /\ UNCHANGED <<pids, remaining>>
              /\ wlog' = Reaped(wlog, wp)
         ELSE LET newp == IF collector THEN answer ELSE 0
                  r    == Replace(pids, remaining, wp, newp)
              IN  /\ pids' = r.pids /\ remaining' = r.remaining
                  /\ wlog' = TakenUp(Reaped(wlog, wp), pids, wp, collector, newp)
    /\ reaps' = reaps + 1
    /\ wpc' = "loop"
    /\ UNCHANGED collector

InitWait ==
    /\ reset = FALSE
    /\ move_event = FALSE
    /\ move_event_buf = NULL
    /\ pc = "loop"
    /\ do_read = 0
    /\ left = 0
    /\ nread = 0
    /\ lastSrc = NoSrc
    /\ last = NoCall
    /\ since = {}
    /\ drainEnd = NoDrain
    /\ alarm = NoAlarm
    /\ pids \in PidTables
    /\ remaining = 0
    /\ collector \in BOOLEAN
    /\ wpc = "call"
    /\ reaps = 0
    /\ wlog = [NoWait EXCEPT !.table = pids, !.held = Children(pids)]
    /\ execs = <<>>

NextWait ==
    \/ WaitEnter /\ UNCHANGED <<loopvars, execs>>
    \/ WaitTest /\ UNCHANGED <<loopvars, execs>>
    \/ WaitReap /\ UNCHANGED <<loopvars, execs>>

SpecWait == InitWait /\ [][NextWait]_vars

(* -------------------------------- l_exec ------------------------------ *)

\* what fork() returns in the process that goes on in l_exec: -1 when no
\* child could be created, 0 in the child, the child's pid in the parent
ForkResults == {-1, 0, 1, 2, 3}

\* one call of exec: the child runs execv() and, should that fail, exits;
\* every other process pushes pid and returns to the runner
l_exec(pid, execv_ok) ==
    IF pid = 0
    THEN [fork |-> pid, returns |-> FALSE, value |-> 0,
          ends |-> IF execv_ok THEN "execv" ELSE "exit"]
    ELSE [fork |-> pid, returns |-> TRUE, value |-> pid, ends |-> "no"]

\* the runner calls exec, unless this process ended in an earlier call
Exec ==
    /\ Len(execs) < MaxExecs
    /\ IF execs = <<>> THEN TRUE ELSE execs[Len(execs)].returns
    /\ \E pid \in ForkResults, execv_ok \in BOOLEAN :
         execs' = Append(execs, l_exec(pid, execv_ok))

NextExec == Exec /\ UNCHANGED <<loopvars, waitvars>>

SpecExec == Init /\ [][NextExec]_vars

(* ------------------- properties of the event normaliser --------------- *)

\* the calls of the latest handle_event that dispatch an event
EventCalls == {i \in 1 .. Len(last.calls) : last.calls[i].fn = "lsyncd_event"}
MoveCalls == {i \in EventCalls : last.calls[i].args[1] = MOVE}

\* the latest handle_event was given a record with this bit set
Handled(bit) == last.made /\ bit \in last.arg.mask

\* the arguments of a unary event of the given type taken from record r
UnaryArgs(event_type, r) == <<event_type, r.wd, "IN_ISDIR" \in r.mask, r.name, NIL>>

\* the records that passed by the move buffer since it was filled
Between == last.since \ {"read", "iteration"}

\* the latest handle_event was given the MOVED_TO that directly follows, in
\* the kernel's stream, the MOVED_FROM with the same cookie that is buffered
RenamePair ==
    /\ Handled("IN_MOVED_TO") /\ ~last.reset
    /\ last.move_event /\ "IN_MOVED_FROM" \in last.buf.mask
    /\ last.buf.cookie = last.arg.cookie
    /\ last.arg.id = last.buf.id + 1

\* C1: with reset clear, a moved-from and the moved-to with the same cookie
\* handled right after it give exactly one dispatched event, a Move whose
\* name is the moved-from's and whose name2 is the moved-to's; no Delete or
\* Create is dispatched and the move buffer is empty afterwards.
C1_MatchedRenameIsOneMove ==
    RenamePair =>
        /\ Len(last.calls) = 1
        /\ last.calls[1].fn = "lsyncd_event"
        /\ last.calls[1].args[1] = MOVE
        /\ last.calls[1].args[4] = last.buf.name
        /\ last.calls[1].args[5] = last.arg.name
        /\ ~move_event

C1_Witness ==
    /\ RenamePair
    /\ last.buf.name # last.arg.name
    /\ MoveCalls = {1}

\* C2: every dispatched Move carries the watch descriptor of its source
\* (moved-from) half, also when the two halves came on different watches.
C2_MoveCarriesSourceWatch ==
    \A i \in MoveCalls : last.calls[i].args[2] = last.buf.wd

\* the latest handle_event was the flush of the record that was in the move
\* buffer when the drain ended
FlushCall == last.made /\ last.arg = NULL
FlushedAsDelete ==
    /\ FlushCall
    /\ Len(last.calls) = 1
    /\ last.calls[1].fn = "lsyncd_event"
    /\ last.calls[1].args = UnaryArgs(DELETE, drainEnd.buf)

\* a drain ended with a moved-from in the buffer and the iteration is over
DrainLeftMove ==
    /\ pc \in {"loop", "alarm", "done"}
    /\ drainEnd.ended /\ drainEnd.move_event

\* C3 as claimed: whenever a drain ends with an unmatched moved-from in the
\* buffer, exactly one Delete with its watch and name is dispatched before
\* the master loop queries get_alarm again.
C3_FlushAlwaysDelivers == DrainLeftMove => FlushedAsDelete

\* C3 amended: the flush runs before get_alarm is queried again and it
\* dispatches exactly one Delete with the record's watch and name, unless
\* reset is set when the flush runs: then the record is dropped.
C3_FlushDeliversUnlessReset ==
    DrainLeftMove => FlushCall /\ (last.reset \/ FlushedAsDelete)

C3_Witness ==
    /\ DrainLeftMove /\ pc = "alarm"
    /\ FlushedAsDelete /\ ~last.reset

\* C4: each time the master loop queries get_alarm, the move buffer is empty.
C4_BufferEmptyAtAlarm == pc = "alarm" => ~move_event

C4_Witness ==
    /\ pc = "alarm" /\ ~move_event
    /\ drainEnd.ended /\ drainEnd.move_event

\* the latest handle_event was given a MOVED_TO while the buffer held a
\* MOVED_FROM with another cookie
MismatchedMovedTo ==
    /\ Handled("IN_MOVED_TO")
    /\ last.move_event /\ last.buf.cookie # last.arg.cookie

DeleteOfBuffered ==
    /\ Len(last.calls) >= 1
    /\ last.calls[1].fn = "lsyncd_event"
    /\ last.calls[1].args = UnaryArgs(DELETE, last.buf)

CreateOfMovedTo ==
    /\ Len(last.calls) = 2
    /\ last.calls[2].fn = "lsyncd_event"
    /\ last.calls[2].args = UnaryArgs(CREATE, last.arg)

\* C5 as claimed: a moved-to that meets a buffered moved-from with another
\* cookie gives exactly two events, the Delete of the buffered record and
\* then the Create of the moved-to; no Move; the buffer is empty afterwards.
C5_MismatchGivesDeleteCreate ==
    MismatchedMovedTo => DeleteOfBuffered /\ CreateOfMovedTo /\ ~move_event

\* C5 amended: with reset clear when the record is handled, the Delete of
\* the buffered record is dispatched first and the buffer is emptied; the
\* Create of the moved-to follows as the second and last event, unless reset
\* became set while the runner handled the Delete: then it is dropped.
C5_MismatchGivesDeleteCreateUnlessReset ==
    (MismatchedMovedTo /\ ~last.reset) =>
        /\ DeleteOfBuffered
        /\ ~move_event
        /\ CreateOfMovedTo \/ (Len(last.calls) = 1 /\ reset)

C5_Witness ==
    /\ MismatchedMovedTo /\ ~last.reset
    /\ DeleteOfBuffered /\ CreateOfMovedTo
    /\ last.buf.wd # last.arg.wd

\* C6 as claimed: a Move pairs only a moved-from and a moved-to that are
\* adjacent in the kernel's stream; any record between them, an overflow or
\* ignored record included, prevents the pairing.
C6_MoveOnlyForAdjacent ==
    \A i \in MoveCalls : last.arg.id = last.buf.id + 1

\* C6 amended: a Move pairs only a moved-from and a moved-to between which
\* the stream holds nothing but overflow and ignored records.
C6_MoveOnlyAcrossOverflowIgnored ==
    \A i \in MoveCalls :
        /\ last.move_event
        /\ Between \subseteq {"IN_Q_OVERFLOW", "IN_IGNORED"}
        /\ (Between = {}) = (last.arg.id = last.buf.id + 1)

C6_Witness ==
    /\ MoveCalls # {}
    /\ "IN_IGNORED" \in Between
    /\ last.arg.id = last.buf.id + 2

\* C7: the two halves of every dispatched Move have the same cookie and were
\* read in the same drain of the same iteration of the master loop.
C7_MoveHalvesSameCookieSameDrain ==
    \A i \in MoveCalls :
        /\ last.move_event
        /\ last.buf.cookie = last.arg.cookie
        /\ "iteration" \notin last.since

C7_Witness ==
    /\ MoveCalls # {}
    /\ "read" \in last.since
    /\ last.buf.cookie = last.arg.cookie

\* the event bits a record must carry one of to be dispatched with a type
BitsOf(event_type) ==
    IF event_type = ATTRIB THEN {"IN_ATTRIB"}
    ELSE IF event_type = MODIFY THEN {"IN_CLOSE_WRITE"}
    ELSE IF event_type = CREATE THEN {"IN_CREATE", "IN_MOVED_TO"}
    ELSE IF event_type = DELETE THEN {"IN_DELETE", "IN_MOVED_FROM"}
    ELSE IF event_type = MOVE THEN {"IN_MOVED_TO"}
    ELSE {}

\* call c took its watch from a record of the stream, the one just handled
\* or the buffered one, and its type is one that record's mask stands for
StemsFrom(c) ==
    \/ /\ last.arg # NULL /\ c.src = last.arg.id /\ c.args[2] = last.arg.wd
       /\ last.arg.id \in 1 .. nread
       /\ BitsOf(c.args[1]) \cap last.arg.mask # {}
    \/ /\ last.move_event /\ c.src = last.buf.id /\ c.args[2] = last.buf.wd
       /\ last.buf.id \in 1 .. nread
       /\ c.args[1] = DELETE /\ "IN_MOVED_FROM" \in last.buf.mask

\* C8: per watch, events are dispatched in the order of the kernel's records
\* on that watch: every event stems from a record of the stream on its
\* watch, later than the record of the watch's previous event, and no record
\* gives more than one event.
C8_PerWatchOrderPreserved ==
    /\ \A i \in EventCalls :
          /\ StemsFrom(last.calls[i])
          /\ last.calls[i].src > last.lastSrc[last.calls[i].args[2]]
    /\ \A i, j \in EventCalls : i < j => last.calls[i].src < last.calls[j].src
    /\ \A i \in MoveCalls :
          /\ last.calls[i].src2 = last.buf.id
          /\ last.calls[i].src2 > last.lastSrc[last.buf.wd]
          /\ \A j \in EventCalls : last.calls[j].src # last.calls[i].src2

C8_Witness ==
    /\ EventCalls = {1, 2}
    /\ last.calls[1].args[2] = last.calls[2].args[2]
    /\ last.lastSrc[last.calls[1].args[2]] > 0
    /\ last.calls[1].src < last.calls[2].src

\* C9: an overflow record handled with reset clear invokes overflow exactly
\* once, without arguments, and dispatches no event, whether or not the move
\* buffer is in use; the buffer is left as it was.
C9_OverflowCallsOverflowOnce ==
    (Handled("IN_Q_OVERFLOW") /\ ~last.reset) =>
        /\ Len(last.calls) = 1
        /\ last.calls[1].fn = "overflow"
        /\ last.calls[1].args = <<>>
        /\ EventCalls = {}
        /\ move_event = last.move_event

C9_Witness ==
    /\ Handled("IN_Q_OVERFLOW") /\ ~last.reset
    /\ last.move_event /\ move_event
    /\ Len(last.calls) = 1 /\ last.calls[1].fn = "overflow"

\* the latest handle_event was given a record with just this event bit,
\* with reset clear and the move buffer empty
HandledAlone(bit) ==
    /\ last.made /\ last.arg # NULL /\ Kind(last.arg) = {bit}
    /\ ~last.reset /\ ~last.move_event

\* the latest handle_event dispatched one event of this type, taken from
\* the record it was given, and nothing else
OneUnary(event_type) ==
    /\ Len(last.calls) = 1
    /\ last.calls[1].fn = "lsyncd_event"
    /\ last.calls[1].args = UnaryArgs(event_type, last.arg)

\* C17: a record whose only event bit is delete-self (the watched directory
\* itself was deleted), handled with reset clear and the buffer empty, is
\* dispatched as one Delete event for that watch.
C17_DeleteSelfIsDelete == HandledAlone("IN_DELETE_SELF") => OneUnary(DELETE)

\* the event bits of C18 and the type each is dispatched with
UnaryBits == {"IN_ATTRIB", "IN_CLOSE_WRITE", "IN_CREATE", "IN_DELETE", "IN_MOVED_TO"}
UnaryType(bit) ==
    IF bit = "IN_ATTRIB" THEN ATTRIB
    ELSE IF bit = "IN_CLOSE_WRITE" THEN MODIFY
    ELSE IF bit = "IN_DELETE" THEN DELETE
    ELSE CREATE

\* C18: with reset clear and the buffer empty, a record with exactly one of
\* attrib, close-write, create, delete, moved-to dispatches exactly one event,
\* of type Attrib, Modify, Create, Delete, Create, with the record's watch,
\* name and directory flag and no second name; the buffer stays empty.
C18_SingleBitIsOneUnary ==
    \A bit \in UnaryBits :
        HandledAlone(bit) => OneUnary(UnaryType(bit)) /\ ~move_event

C18_Witness ==
    /\ HandledAlone("IN_CREATE") /\ "IN_ISDIR" \in last.arg.mask
    /\ last.calls = <<EventCall(CREATE, last.arg, NULL)>>
    /\ last.calls[1].args[3]
    /\ ~move_event

\* the latest handle_event was given a MOVED_FROM while the buffer held an
\* earlier MOVED_FROM
SecondMovedFrom ==
    /\ Handled("IN_MOVED_FROM")
    /\ last.move_event /\ "IN_MOVED_FROM" \in last.buf.mask

\* the record the latest handle_event was given is now the buffered one
NewerIsPending == move_event /\ move_event_buf = last.arg

\* the latest handle_event was given a MOVED_TO with the cookie of the
\* record in the buffer, with reset clear
MovedToOfBuffered ==
    /\ Handled("IN_MOVED_TO") /\ ~last.reset
    /\ last.move_event /\ last.buf.cookie = last.arg.cookie

\* the latest handle_event dispatched one Move, from the buffered record's
\* name to the given record's name, and nothing else
OneMoveOfBuffered ==
    /\ Len(last.calls) = 1
    /\ last.calls[1].fn = "lsyncd_event"
    /\ last.calls[1].args[1] = MOVE
    /\ last.calls[1].args[4] = last.buf.name
    /\ last.calls[1].args[5] = last.arg.name
    /\ last.calls[1].src2 = last.buf.id

\* C21 as claimed: a moved-from that meets a buffered earlier moved-from
\* gives exactly one Delete, of the earlier record, and becomes the one
\* pending record itself: it is never dropped, and a moved-to with the
\* cookie of the pending record gives a Move for that record.
C21_SecondMovedFromReplacesFirst ==
    /\ SecondMovedFrom =>
          Len(last.calls) = 1 /\ DeleteOfBuffered /\ NewerIsPending
    /\ MovedToOfBuffered => OneMoveOfBuffered

\* C21 amended: with reset clear when the record is handled, exactly one
\* Delete, of the earlier record, is dispatched, and the newer record
\* becomes the one pending record unless reset became set while the runner
\* handled the Delete: then the newer record is dropped and the buffer is
\* empty. With reset clear, a moved-to with the cookie of the pending record
\* gives one Move for that record.
C21_SecondMovedFromReplacesFirstUnlessReset ==
    /\ (SecondMovedFrom /\ ~last.reset) =>
          /\ Len(last.calls) = 1 /\ DeleteOfBuffered
          /\ NewerIsPending \/ (~move_event /\ reset)
    /\ MovedToOfBuffered => OneMoveOfBuffered

C21_Witness ==
    /\ SecondMovedFrom /\ ~last.reset
    /\ Len(last.calls) = 1 /\ DeleteOfBuffered
    /\ NewerIsPending /\ ~reset
    /\ last.buf.name # last.arg.name

(* --------------------- properties of the master loop ------------------ *)

\* C13: masterloop returns only when reset is set; while reset is clear it
\* is inside the loop or the process has exited (terminate() called by the
\* runner, or the fatal error of an alarm in the past).
C13_ReturnsOnlyOnReset == pc = "done" => reset

C13_Witness == pc = "done" /\ reset /\ nread > 0 /\ last.made

\* C14: the drain loop is bounded by reset: once reset is set the drain
\* stops at its next test and the loop goes on to its end, also when the
\* peek reports that more records are available.
C14_DrainStopsOnReset ==
    [][(pc = "events" /\ reset /\ pc' # pc /\ do_read' > 0) => pc' = "flush"]_vars

\* C15: when the timed select() is interrupted by a signal (it returns -1:
\* neither data nor timeout), the iteration reads nothing and goes on to
\* its end, so that the clock and get_alarm are queried again.
C15_InterruptedWaitReadsNothing ==
    [][(pc = "select" /\ pc' # pc /\ do_read' < 0) => pc' = "flush"]_vars

\* the iteration acts on an answer of get_alarm with alarm_state > 0
Waiting == alarm.asked /\ alarm.state > 0

\* C19: with alarm_state > 0 the master loop ends the process with a
\* critical error whenever the alarm time is not strictly after now (before
\* now or equal to it) and waits on the event source only when it is.
C19_ExitsUnlessAlarmAfter ==
    Waiting => IF alarm.ahead > 0 THEN pc = "select" ELSE pc = "exit"

\* C19 as the code has it: with alarm_state > 0 the master loop ends the
\* process with a critical error exactly when the alarm time is strictly
\* before now; when it equals now or is after now the loop goes on to wait
\* on the event source.
C19_ExitsIffAlarmBefore ==
    /\ Waiting => IF alarm.ahead < 0 THEN pc = "exit" ELSE pc = "select"
    /\ pc \in {"exit", "select"} => Waiting

C19_Witness == Waiting /\ alarm.ahead = 0 /\ pc = "select"

\* the iteration acts on an answer of get_alarm with alarm_state < 0
ImmediatelyDue == alarm.asked /\ alarm.state < 0

\* C20: in an iteration where get_alarm answers alarm_state < 0 the loop
\* neither waits nor reads, takes no record and calls neither lsyncd_event
\* nor overflow: from the answer on it only goes to the end of the iteration
\* and from there to the next get_alarm, or out of the loop on reset.
C20_ImmediatelyDueDoesNothing ==
    [][ImmediatelyDue =>
          /\ pc \in {"flush", "loop"}
          /\ pc' \in {"flush", "loop", "alarm", "done"}
          /\ last' = last /\ nread' = nread /\ lastSrc' = lastSrc
          /\ move_event' = move_event]_vars

C20_Witness == ImmediatelyDue /\ pc = "loop" /\ ~reset /\ last.made /\ nread > 0

\* the latest handle_event was given the MOVED_TO that directly follows the
\* buffered MOVED_FROM with the same cookie, and a read boundary of the
\* drain lies between the two
RenameAcrossReads ==
    /\ Handled("IN_MOVED_TO")
    /\ last.move_event /\ "IN_MOVED_FROM" \in last.buf.mask
    /\ last.buf.cookie = last.arg.cookie
    /\ last.arg.id = last.buf.id + 1
    /\ "read" \in last.since

\* C22 as claimed: a moved-from that ends one read and the moved-to with its
\* cookie that begins the next read of the same drain give exactly one Move
\* and no Delete or Create.
C22_PairingSurvivesReads == RenameAcrossReads => OneMoveOfBuffered

\* this step calls handle_event(L, NULL)
FlushStep == last' # last /\ last'.arg = NULL

\* C22 amended: if the moved-to is handled with reset clear, exactly one
\* Move and no Delete or Create is dispatched and the buffer is empty; and
\* the buffer is flushed only at the end of an iteration, after the peek
\* reported no more data, never between two reads of one drain.
C22_PairingSurvivesReadsUnlessReset ==
    [][/\ (RenameAcrossReads /\ ~last.reset)' => (OneMoveOfBuffered /\ ~move_event)'
       /\ FlushStep => (pc = "flush" /\ drainEnd.ended /\ drainEnd.buf = last'.buf)]_vars

C22_Witness ==
    /\ RenameAcrossReads /\ ~last.reset
    /\ OneMoveOfBuffered /\ ~move_event
    /\ last.buf.wd # last.arg.wd

\* the latest handle_event made a call into the runner when reset was set
CalledOnReset == last.made /\ last.calls # <<>> /\ (last.reset \/ last.raced)

\* C24 as claimed: once reset is set no event or overflow call is made.
C24_NoCallOnceReset == ~CalledOnReset

\* this step calls handle_event
HandleStep == last' # last

\* C24 amended: a handle_event entered with reset set makes no call, the
\* loop hands over no record once reset is set, and a record in the move
\* buffer stays undispatched; a handle_event during which reset becomes set
\* makes at most one call, the one it had decided on when the signal came.
C24_NoCallOnceResetButOneUnderWay ==
    [][/\ reset => /\ nread' = nread
                   /\ HandleStep => last'.calls = <<>>
                   /\ lastSrc' = lastSrc
       /\ (HandleStep /\ last'.reset) => last'.calls = <<>>
       /\ (HandleStep /\ ~reset /\ reset') => Len(last'.calls) <= 1
       /\ last'.raced => Len(last'.calls) = 1 /\ reset']_vars

\* the loop has returned on reset with a record left in the read buffer and
\* a moved-from left in the move buffer, after a flush that made no call
C24_Witness ==
    /\ pc = "done" /\ reset
    /\ left > 0 /\ move_event
    /\ FlushCall /\ last.reset /\ last.calls = <<>>

(* ------------------------- properties of exec ------------------------- *)

\* C16: exec returns 0 to the runner when fork() fails and the positive pid
\* of the child otherwise; it never returns a negative value.
C16_ExecReturnsZeroOrPid ==
    \A i \in 1 .. Len(execs) :
        execs[i].returns =>
            /\ execs[i].fork < 0 => execs[i].value = 0
            /\ execs[i].fork > 0 => execs[i].value = execs[i].fork
            /\ execs[i].value >= 0

(* ----------------------- properties of wait_pids ---------------------- *)

AllZero == \A i \in 1 .. Len(pids) : pids[i] = 0

\* C10: wait_pids returns if and only if every slot of its pid table is
\* zero: when it has returned no slot holds a pid, and it does not go on
\* waiting once every slot is zero (an empty or all-zero table included).
C10_ReturnsIffAllZero ==
    /\ wpc = "returned" => AllZero
    /\ wpc = "waitpid" => ~AllZero

C10_Witness ==
    /\ wpc = "returned"
    /\ Len(pids) = 2 /\ AllZero
    /\ reaps = 2

\* a slot still holds a child that waitpid() has not returned yet
Unreaped == \E i \in 1 .. Len(pids) : pids[i] # 0 /\ pids[i] \notin wlog.gone

\* C11: wait_pids blocks only until every child in its table has terminated
\* and been reaped, whether the child exited or was killed by a signal: it
\* never sits in waitpid() when every pid of the table has been reaped.
C11_BlocksOnlyWhileUnreaped == wpc = "waitpid" => Unreaped

\* the table after the latest reap taken up, had newp replaced wp in every
\* slot
Replaced ==
    [i \in 1 .. Len(wlog.last.before) |->
        IF wlog.last.before[i] = wlog.last.wp THEN wlog.last.newp
        ELSE wlog.last.before[i]]

\* C12: when the collector answers a reap with a non-zero pid, that pid
\* replaces the reaped one in every slot that held it and wait_pids goes on
\* waiting; it returns only when every child the table ever held, follow-ups
\* included, has been reaped, each reap answered by a collector call of its
\* own (for [10, 20] with 30 following 10: three reaps, three calls).
C12_ReplacementIsWaitedFor ==
    /\ (wpc = "loop" /\ wlog.last.called /\ wlog.last.newp # 0) =>
          pids = Replaced /\ remaining # 0
    /\ wpc = "returned" =>
          /\ wlog.held \subseteq wlog.gone
          /\ reaps >= Cardinality(wlog.held)
          /\ collector => wlog.collected >= Cardinality(wlog.held)

\* pids [1, 2], the collector answers 3 for 1 and 0 otherwise, the children
\* are reaped in the order 1, 3, 2
C12_Witness ==
    /\ wlog.table = <<1, 2>> /\ collector
    /\ wpc = "returned"
    /\ wlog.held = {1, 2, 3}
    /\ wlog.last.wp = 2 /\ wlog.last.before = <<0, 2>>
    /\ reaps = 3 /\ wlog.collected = 3

\* the slots of the table that hold a pid
NonZeroSlots == {i \in 1 .. Len(pids) : pids[i] # 0}

\* C23: each time wait_pids evaluates while(remaining), remaining is the
\* number of non-zero slots of the table, whatever the table (duplicate
\* pids, zero entries), the reaps (strangers, children that did not exit)
\* and the collector's answers (0, a new pid, the same pid again).
C23_RemainingCountsNonZero == wpc = "loop" => remaining = Cardinality(NonZeroSlots)

\* a table of two slots with the same pid, whose second reap the collector
\* has answered with that pid again
C23_Witness ==
    /\ wpc = "loop"
    /\ wlog.table = <<1, 1>> /\ pids = <<1, 1>>
    /\ wlog.last.called /\ wlog.last.wp = 1 /\ wlog.last.newp = 1
    /\ reaps = 2
    /\ remaining = 2

====
